---- MODULE Spec2Model ----
(***************************************************************************)
(* amqp-recv (cmd/amqp-recv/main.go): a single-message consumer.           *)
(*                                                                         *)
(* main() parses the configuration and calls run(); run() builds the       *)
(* cancellation contexts, starts the broker (the connection loop of the    *)
(* fluent-amqp library), selects a handler, registers handlerFunc on a     *)
(* consumer and waits for the broker to finish.  handlerFunc renders one   *)
(* delivery and calls cancel().                                            *)
(*                                                                         *)
(* main.go is modelled statement by statement.  The fluent-amqp library    *)
(* (Broker, Start, Sink, Validate, HandlerFunc, SignalContext,             *)
(* WaitToFinish) is not part of the sources at hand; its behaviour is      *)
(* modelled from the design document (sections 3, 4.1-4.5 and 5).          *)
(***************************************************************************)
EXTENDS Naturals, FiniteSets, Sequences, TLC

(* ------------------------------ bounds -------------------------------- *)

\* Largest endpoint set (config.URLs) explored.
MaxUrls == 2
\* Number of deliveries the broker may offer to the consumer in one run.
MaxDeliveries == 2
\* Number of OS interrupts the environment may send in one run.
MaxSignals == 2

\* Longest delivery body given to the JSON handler, in bytes.
MaxBody == 3

\* Longest routing key given to the JSON handler, in bytes.
MaxKey == 2

(* ---------------------------- configuration --------------------------- *)

\* choice:"body" choice:"dump" choice:"json" choice:"template"
OutTypes == {"body", "dump", "json", "template"}

\* choice:"direct" choice:"topic" choice:"fanout"
ExchangeKinds == {"direct", "topic", "fanout"}

\* What reading and compiling the template from standard input can yield.
TemplateOutcomes == {"ok", "read_error", "parse_error"}

\* The configurations explored: the fields of the config struct that run()
\* and main() branch on.  exchange, routingKey and verify stand for "the
\* string is not empty"; urls is the length of config.URLs (required, at
\* least one).  Without an exchange name the kind keeps its default.
\* The exchange kind, the routing key and the lazy flag, which no branch
\* of the connection loop depends on, are varied over the plain
\* configuration (raw body, no certificate, one endpoint), with and
\* without an exchange name.
Configs ==
    { c \in [ version  : BOOLEAN,
              parseErr : BOOLEAN,
              outType  : OutTypes,
              exchange : BOOLEAN,
              kind     : ExchangeKinds,
              routingKey : BOOLEAN,
              lazy     : BOOLEAN,
              verify   : BOOLEAN,
              urls     : 1..MaxUrls ] :
        /\ (~c.exchange => c.kind = "direct")
        /\ ((c.routingKey \/ c.lazy \/ c.kind # "direct") =>
               /\ c.outType = "body"
               /\ ~c.verify
               /\ c.urls = 1)
        /\ ((c.version \/ c.parseErr) =>
               /\ c.outType = "body"
               /\ ~c.exchange
               /\ ~c.routingKey
               /\ ~c.lazy
               /\ ~c.verify
               /\ c.urls = 1) }

VARIABLES
    config,       \* the parsed configuration (never changes after Init)
    pc,           \* position of the main goroutine in main()/run()
    exitCode,     \* {} while the process lives, then {its exit status}
    runErr,       \* the error run() returns: "none", "read_error", ...
    gctxDone,     \* gctx (context.WithCancel) is cancelled
    ctxDone,      \* ctx (fluent.SignalContext(gctx)) is cancelled
    causes,       \* which sources have fired: "signal", "render", "return"
    signals,      \* number of OS interrupts received by the process
    earlySignal,  \* an interrupt arrived while no delivery had been handed over
    brokerStarted,\* Broker(...).Start() was called
    brokerDone,   \* the broker's loop has finished (WaitToFinish returns)
    conn,         \* state of the connection
    url,          \* index (0-based) of the endpoint of the current attempt
    topo,         \* progress of topology setup on the current connection
    registered,   \* the consumers handlerFunc is registered on: "queue"
                  \* (the sink) and/or "exchange" (the exchange binding)
    validator,    \* the sink verifies deliveries (Validate was applied)
    lazyQueue,    \* the sink's queue is lazy (Lazy was applied)
    exc,          \* the exchange binding built by run(), NoExchange if none
    hpc,          \* position of the consumer goroutine inside handlerFunc
    current,      \* the delivery being handled
    offered,      \* deliveries the broker has offered so far
    handed,       \* deliveries handed to handlerFunc so far
    completed,    \* renders that returned successfully
    discarded,    \* deliveries dropped by verification
    renderFailed, \* a render panicked
    everAttempted,\* a connection attempt was started
    everConnected,\* a connection attempt succeeded
    links,        \* number of established links to a broker that are open
    recent,       \* endpoints of the latest attempts, one window of the set
    topoLog,      \* declarations made on the current connection, in order
    topoFailed,   \* a declaration has failed on some connection
    jpc,          \* position of a jsonHandler.Handle call studied by itself
    msg,          \* the delivery given to jsonHandler.Handle
    stdout,       \* the JSON document Handle has written
    decoded       \* the delivery a reader decodes from the document

vars == << config, pc, exitCode, runErr, gctxDone, ctxDone, causes, signals,
           earlySignal,
           brokerStarted, brokerDone, conn, url, topo, registered, validator,
           lazyQueue, exc,
           hpc, current, offered, handed, completed, discarded, renderFailed,
           everAttempted, everConnected, links, recent, topoLog,
           topoFailed, jpc, msg, stdout, decoded >>

mainVars    == << pc, exitCode, runErr >>
tokenVars   == << gctxDone, ctxDone, causes >>
sigVars     == << signals, earlySignal >>
histVars    == << links, recent, topoLog, topoFailed >>
brokerVars  == << brokerStarted, brokerDone, conn, url, topo,
                  everAttempted, everConnected, histVars >>
jsonVars    == << jpc, msg, stdout, decoded >>
sinkVars    == << registered, validator, lazyQueue, exc >>
handlerVars == << hpc, current, handed, completed, renderFailed >>
streamVars  == << offered, discarded >>

\* var exc *fluent.Exchange, still nil.
NoExchange == [kind |-> "none", keyed |-> FALSE]

NoDelivery == [sigOk |-> TRUE, body |-> "none"]

\* A delivery as far as the program looks at it: whether its signature
\* verifies against the configured certificate, and whether its body is text.
Deliveries == [sigOk : BOOLEAN, body : {"text", "binary"}]

\* The delivery fields the JSON handler is studied on, before any delivery.
NoMessage ==
    [RoutingKey |-> << >>, DeliveryTag |-> 0, Redelivered |-> FALSE,
     Body |-> << >>]

\* No document written.
NoDocument ==
    [RoutingKey |-> << >>, DeliveryTag |-> << >>, Redelivered |-> "",
     Body |-> << >>]

\* The process at its start, whatever its configuration.
ProcessInit ==
    /\ pc = "main_parse"
    /\ exitCode = {}
    /\ runErr = "none"
    /\ gctxDone = FALSE
    /\ ctxDone = FALSE
    /\ causes = {}
    /\ signals = 0
    /\ earlySignal = FALSE
    /\ brokerStarted = FALSE
    /\ brokerDone = FALSE
    /\ conn = "Disconnected"
    /\ url = 0
    /\ topo = "none"
    /\ registered = {}
    /\ validator = FALSE
    /\ lazyQueue = FALSE
    /\ exc = NoExchange
    /\ hpc = "idle"
    /\ current = NoDelivery
    /\ offered = 0
    /\ handed = 0
    /\ completed = 0
    /\ discarded = 0
    /\ renderFailed = FALSE
    /\ everAttempted = FALSE
    /\ everConnected = FALSE
    /\ links = 0
    /\ recent = << >>
    /\ topoLog = << >>
    /\ topoFailed = FALSE

\* No jsonHandler.Handle call is studied by itself.
JsonOff ==
    /\ jpc = "off"
    /\ msg = NoMessage
    /\ stdout = NoDocument
    /\ decoded = NoMessage

Init ==
    /\ config \in Configs
    /\ ProcessInit
    /\ JsonOff

\* The process has not exited.
Alive == pc # "exited"

(* ---------------------------- the token ------------------------------- *)

\* Variant: the broker is given gctx instead of the signal context.
BrokerContextWithoutSignals == gctxDone

\* The context handed to the broker: .Context(ctx), ctx being the signal
\* context derived from gctx.
BrokerContext == ctxDone

\* The cancellation token as the Transport Connection Manager sees it.
Tripped == BrokerContext


\* cancel(): cancels gctx and, with it, the derived signal context.
Cancel(cause) ==
    /\ gctxDone' = TRUE
    /\ ctxDone' = TRUE
    /\ causes' = causes \cup {cause}

\* The goroutine of SignalContext: an OS interrupt cancels ctx (not gctx).
\* Until SignalContext is installed, and after the process has exited, the
\* process has no handler for the signal.
Interrupt ==
    /\ Alive
    /\ pc \notin {"main_parse", "run_start"}
    /\ signals < MaxSignals
    /\ signals' = signals + 1
    /\ earlySignal' = (earlySignal \/ handed = 0)
    /\ ctxDone' = TRUE
    /\ causes' = causes \cup {"signal"}
    /\ UNCHANGED << config, jsonVars, mainVars, gctxDone, brokerVars, sinkVars,
                    handlerVars, streamVars >>

(* ------------------------------ main() -------------------------------- *)

\* main() ends before run(): if config.Version {...; return}, then
\* if err != nil { os.Exit(1) }.  The version flag is looked at first.
ParseExit ==
    IF config.version THEN {0}
    ELSE IF config.parseErr THEN {1}
    ELSE {}

\* Variant: main() ignores the error of run().
RunExitIgnoresError(err) == {0}

\* The exit status after run() has returned err.
RunExit(err) == IF err # "none" THEN {2} ELSE {0}

\* main(), from parser.Parse() to the call of run().
MainParse ==
    /\ pc = "main_parse"
    /\ IF ParseExit # {}
         THEN /\ pc' = "exited"
              /\ exitCode' = ParseExit
         ELSE /\ pc' = "run_start"
              /\ exitCode' = exitCode
    /\ UNCHANGED << config, jsonVars, runErr, tokenVars, sigVars, brokerVars, sinkVars,
                    handlerVars, streamVars >>

\* main(), from the return of run() to the end of the process.
MainExit ==
    /\ pc = "run_returned"
    /\ pc' = "exited"
    /\ exitCode' = RunExit(runErr)
    /\ UNCHANGED << config, jsonVars, runErr, tokenVars, sigVars, brokerVars, sinkVars,
                    handlerVars, streamVars >>

(* ------------------------------- run() -------------------------------- *)

\* Variant: the validator is never applied to the sink.
ValidatorNeverInstalled == FALSE

\* if config.Verify != "" { publisherCfg = publisherCfg.Validate(...) }
ValidatorInstalled == config.verify

\* if config.Lazy { publisherCfg = publisherCfg.Lazy() }
LazyInstalled == config.lazy

\* The contexts, Broker(...).Start(), the two defers and the sink
\* configuration.
RunStart ==
    /\ pc = "run_start"
    /\ pc' = "select_handler"
    /\ brokerStarted' = TRUE
    /\ validator' = ValidatorInstalled
    /\ lazyQueue' = LazyInstalled
    /\ UNCHANGED << config, jsonVars, exitCode, runErr, tokenVars, sigVars, brokerDone,
                    conn, url, topo, everAttempted, everConnected, histVars,
                    registered, exc, handlerVars, streamVars >>

\* The early return of run(): the deferred cancel() is next.
ReturnEarly(err) ==
    /\ pc' = "deferred_cancel"
    /\ runErr' = err

\* switch config.OutType: the handlers that need no preparation.
SelectHandler ==
    /\ pc = "select_handler"
    /\ config.outType \in {"dump", "json", "body"}
    /\ pc' = "register"
    /\ UNCHANGED << config, jsonVars, exitCode, runErr, tokenVars, sigVars, brokerVars,
                    sinkVars, handlerVars, streamVars >>

\* case "template": standard input is read to its end and parsed; either
\* step may fail, and run() then returns the error.
ReadTemplate ==
    /\ pc = "select_handler"
    /\ config.outType = "template"
    /\ \E outcome \in TemplateOutcomes :
          IF outcome = "ok"
            THEN pc' = "register" /\ runErr' = runErr
            ELSE ReturnEarly(outcome)
    /\ UNCHANGED << config, jsonVars, exitCode, tokenVars, sigVars, brokerVars,
                    sinkVars, handlerVars, streamVars >>

\* switch config.ExchangeType: every kind the parser lets through is known.
KnownKind(kind) == kind \in {"topic", "direct", "fanout"}

\* The exchange binding run() builds: Topic, Direct or Fanout of the sink
\* by config.ExchangeType, with Key(...) applied when the routing key is
\* not empty; none without an exchange name.
ExchangeBinding ==
    IF config.exchange
      THEN [kind |-> config.kind, keyed |-> config.routingKey]
      ELSE NoExchange

\* Variant: handlerFunc is registered on the sink whatever the configuration.
RegisterOnSinkAlways == {"queue"}

\* Variant: handlerFunc is registered on the sink and, with an exchange
\* name, on the exchange binding as well.
RegisterOnBoth == IF config.exchange THEN {"exchange", "queue"} ELSE {"queue"}

\* Where handlerFunc is registered: on the exchange binding when an exchange
\* name is configured, else on the sink.
RegisterOn == IF config.exchange THEN {"exchange"} ELSE {"queue"}

\* The rest of run() up to the wait: the exchange switch and HandlerFunc.
Register ==
    /\ pc = "register"
    /\ IF config.exchange /\ ~KnownKind(config.kind)
         THEN /\ ReturnEarly("unknown_exchange_type")
              /\ registered' = registered
              /\ exc' = exc
         ELSE /\ pc' = "wait"
              /\ runErr' = runErr
              /\ registered' = RegisterOn
              /\ exc' = ExchangeBinding
    /\ UNCHANGED << config, jsonVars, exitCode, tokenVars, sigVars, brokerVars,
                    validator, lazyQueue, handlerVars, streamVars >>

\* Variant: run() does not wait for the broker.
WaitReturnsAtOnce == TRUE

\* broker.WaitToFinish() returns once the broker's loop has finished.
WaitReturns == brokerDone

\* broker.WaitToFinish(); return nil
Wait ==
    /\ pc = "wait"
    /\ WaitReturns
    /\ pc' = "deferred_cancel"
    /\ UNCHANGED << config, jsonVars, exitCode, runErr, tokenVars, sigVars, brokerVars,
                    sinkVars, handlerVars, streamVars >>

\* Variant: run() returns without the deferred cancel().
DeferredCancelSkipped ==
    /\ pc = "deferred_cancel"
    /\ pc' = "deferred_wait"
    /\ UNCHANGED << config, jsonVars, exitCode, runErr, tokenVars, sigVars, brokerVars,
                    sinkVars, handlerVars, streamVars >>

\* defer cancel()
DeferredCancel ==
    /\ pc = "deferred_cancel"
    /\ pc' = "deferred_wait"
    /\ Cancel("return")
    /\ UNCHANGED << config, jsonVars, exitCode, runErr, sigVars, brokerVars, sinkVars,
                    handlerVars, streamVars >>

\* defer broker.WaitToFinish()
DeferredWait ==
    /\ pc = "deferred_wait"
    /\ WaitReturns
    /\ pc' = "run_returned"
    /\ UNCHANGED << config, jsonVars, exitCode, runErr, tokenVars, sigVars, brokerVars,
                    sinkVars, handlerVars, streamVars >>


(* ------------------ the broker (Transport Connection Manager) --------- *)

\* Variant: the loop keeps trying the same endpoint.
NextUrlStuck(i) == i

\* The endpoint tried after endpoint i: the next one of the list, cyclically.
NextUrl(i) == (i + 1) % config.urls

\* The window of the latest attempts after an attempt on endpoint u: as
\* many entries as there are endpoints, the oldest dropped.
Attempted(w, u) ==
    IF Len(w) < config.urls THEN Append(w, u) ELSE Append(Tail(w), u)

\* The loop makes its first connection attempt.
Connect ==
    /\ Alive
    /\ brokerStarted /\ ~brokerDone
    /\ conn = "Disconnected"
    /\ ~Tripped
    /\ conn' = "Connecting"
    /\ everAttempted' = TRUE
    /\ recent' = Attempted(recent, url)
    /\ UNCHANGED << config, jsonVars, mainVars, tokenVars, sigVars, brokerStarted,
                    brokerDone, url, topo, everConnected, links, topoLog,
                    topoFailed, sinkVars, handlerVars, streamVars >>

\* The attempt fails (refused, DNS, auth, TLS) or runs into the connect
\* timeout: the loop waits the reconnect interval, the next endpoint is due.
ConnectFail ==
    /\ Alive
    /\ conn = "Connecting"
    /\ \E why \in {"error", "timeout"} :
          /\ conn' = "Waiting"
          /\ url' = NextUrl(url)
    /\ UNCHANGED << config, jsonVars, mainVars, tokenVars, sigVars, brokerStarted,
                    brokerDone, topo, everAttempted, everConnected, histVars,
                    sinkVars, handlerVars, streamVars >>

\* The reconnect interval has passed: the next attempt starts.
Retry ==
    /\ Alive
    /\ ~brokerDone
    /\ conn = "Waiting"
    /\ ~Tripped
    /\ hpc = "idle"
    /\ conn' = "Connecting"
    /\ everAttempted' = TRUE
    /\ recent' = Attempted(recent, url)
    /\ UNCHANGED << config, jsonVars, mainVars, tokenVars, sigVars, brokerStarted,
                    brokerDone, url, topo, everConnected, links, topoLog,
                    topoFailed, sinkVars, handlerVars, streamVars >>

\* The attempt succeeds: the connection is up, its topology not yet set up.
ConnectOk ==
    /\ Alive
    /\ conn = "Connecting"
    /\ conn' = "Connected"
    /\ topo' = "none"
    /\ everConnected' = TRUE
    /\ links' = links + 1
    /\ topoLog' = << >>
    /\ UNCHANGED << config, jsonVars, mainVars, tokenVars, sigVars, brokerStarted,
                    brokerDone, url, everAttempted, recent, topoFailed,
                    sinkVars, handlerVars, streamVars >>

\* The step of topology setup that follows step t: the exchange (if one is
\* configured), then the queue, then the binding (if an exchange is
\* configured).
NextTopo(t) ==
    CASE t = "none"     -> IF "exchange" \in registered THEN "exchange"
                           ELSE "queue"
      [] t = "exchange" -> "queue"
      [] t = "queue"    -> IF "exchange" \in registered THEN "bind"
                           ELSE "done"
      [] t = "bind"     -> "done"
      [] OTHER          -> "done"

\* The Topology Binder performs the next declaration for the registered
\* consumer on the live connection.
TopologyStep ==
    /\ Alive
    /\ conn = "Connected"
    /\ registered # {}
    /\ topo # "done"
    /\ ~Tripped
    /\ topo' = NextTopo(topo)
    /\ topoLog' = IF NextTopo(topo) = "done" THEN topoLog
                  ELSE Append(topoLog, NextTopo(topo))
    /\ UNCHANGED << config, jsonVars, mainVars, tokenVars, sigVars, brokerStarted,
                    brokerDone, conn, url, everAttempted, everConnected,
                    links, recent, topoFailed, sinkVars, handlerVars,
                    streamVars >>

\* Variant: a failed declaration ends the broker's loop.
TopologyFailFatal ==
    /\ Alive
    /\ conn = "Connected"
    /\ registered # {}
    /\ topo # "done"
    /\ ~Tripped
    /\ conn' = "Closed"
    /\ topo' = "none"
    /\ brokerDone' = TRUE
    /\ links' = links - 1
    /\ topoLog' = << >>
    /\ topoFailed' = TRUE
    /\ UNCHANGED << config, jsonVars, mainVars, tokenVars, sigVars, brokerStarted, url,
                    everAttempted, everConnected, recent, sinkVars,
                    handlerVars, streamVars >>

\* A declaration fails (a conflict included): the attempt is aborted and
\* retried after the interval.
TopologyFail ==
    /\ Alive
    /\ conn = "Connected"
    /\ registered # {}
    /\ topo # "done"
    /\ ~Tripped
    /\ conn' = "Waiting"
    /\ topo' = "none"
    /\ url' = NextUrl(url)
    /\ links' = links - 1
    /\ topoLog' = << >>
    /\ topoFailed' = TRUE
    /\ UNCHANGED << config, jsonVars, mainVars, tokenVars, sigVars, brokerStarted,
                    brokerDone, everAttempted, everConnected, recent,
                    sinkVars, handlerVars, streamVars >>

\* Variant: the lost connection is not released before the loop reconnects.
ConnectionLostKeepsLink ==
    /\ Alive
    /\ conn = "Connected"
    /\ conn' = "Waiting"
    /\ topo' = "none"
    /\ url' = NextUrl(url)
    /\ topoLog' = << >>
    /\ UNCHANGED << config, jsonVars, mainVars, tokenVars, sigVars, brokerStarted,
                    brokerDone, everAttempted, everConnected, links, recent,
                    topoFailed, sinkVars, handlerVars, streamVars >>

\* The connection is lost: the loop waits the interval and reconnects.
ConnectionLost ==
    /\ Alive
    /\ conn = "Connected"
    /\ conn' = "Waiting"
    /\ topo' = "none"
    /\ url' = NextUrl(url)
    /\ links' = links - 1
    /\ topoLog' = << >>
    /\ UNCHANGED << config, jsonVars, mainVars, tokenVars, sigVars, brokerStarted,
                    brokerDone, everAttempted, everConnected, recent,
                    topoFailed, sinkVars, handlerVars, streamVars >>

\* Cancellation is observed with a connection (or an attempt) open: the
\* connection is being closed.
BeginClose ==
    /\ Alive
    /\ ~brokerDone
    /\ Tripped
    /\ conn \in {"Connecting", "Connected"}
    /\ conn' = "Closing"
    /\ UNCHANGED << config, jsonVars, mainVars, tokenVars, sigVars, brokerStarted,
                    brokerDone, url, topo, everAttempted, everConnected,
                    histVars, sinkVars, handlerVars, streamVars >>

\* The close completes once the delivery in flight, if any, was handled.
FinishClose ==
    /\ Alive
    /\ conn = "Closing"
    /\ hpc = "idle"
    /\ conn' = "Closed"
    /\ topo' = "none"
    /\ links' = IF links > 0 THEN links - 1 ELSE 0
    /\ topoLog' = << >>
    /\ UNCHANGED << config, jsonVars, mainVars, tokenVars, sigVars, brokerStarted,
                    brokerDone, url, everAttempted, everConnected, recent,
                    topoFailed, sinkVars, handlerVars, streamVars >>

\* Cancellation is observed with no connection open (never connected,
\* waiting to retry, or closed): the loop ends without error.
BrokerFinish ==
    /\ Alive
    /\ brokerStarted /\ ~brokerDone
    /\ Tripped
    /\ conn \in {"Disconnected", "Waiting", "Closed"}
    /\ hpc = "idle"
    /\ brokerDone' = TRUE
    /\ UNCHANGED << config, jsonVars, mainVars, tokenVars, sigVars, brokerStarted,
                    conn, url, topo, everAttempted, everConnected, histVars,
                    sinkVars, handlerVars, streamVars >>


(* ------------------- verification and delivery ------------------------ *)

\* Variant: the consumer takes a delivery while the handler is busy.
CanConsumeWhileBusy ==
    /\ Alive
    /\ conn = "Connected"
    /\ topo = "done"
    /\ registered # {}
    /\ ~Tripped
    /\ offered < MaxDeliveries

\* The consumer can take a delivery: the connection is up, its topology is
\* set up, the handler is registered and not busy, the token is not tripped.
CanConsume ==
    /\ Alive
    /\ conn = "Connected"
    /\ topo = "done"
    /\ registered # {}
    /\ hpc = "idle"
    /\ ~Tripped
    /\ offered < MaxDeliveries

\* The Payload Verifier: without a validator every delivery passes; with
\* one, only a delivery whose signature verifies.
Verified(d) == validator => d.sigOk

\* A delivery fails verification: it is dropped (and a warning logged), the
\* consumer goes on waiting.
Discard ==
    /\ CanConsume
    /\ \E d \in Deliveries :
          /\ ~Verified(d)
          /\ offered' = offered + 1
          /\ discarded' = discarded + 1
    /\ UNCHANGED << config, jsonVars, mainVars, tokenVars, sigVars, brokerVars,
                    sinkVars, handlerVars >>

\* A delivery passes verification and is handed to handlerFunc, which calls
\* handler.Handle(ctx, msg).
Dispatch ==
    /\ CanConsume
    /\ \E d \in Deliveries :
          /\ Verified(d)
          /\ offered' = offered + 1
          /\ handed' = handed + 1
          /\ current' = d
          /\ hpc' = "rendering"
    /\ UNCHANGED << config, jsonVars, mainVars, tokenVars, sigVars, brokerVars,
                    sinkVars, completed, renderFailed, discarded >>

(* ------------------- the handlers and handlerFunc --------------------- *)

\* Whether Handle of the selected variant has a failing path: jsonHandler,
\* plainHandler and templateHandler panic on an error, dumpHandler ignores
\* the result of spew.Dump.
CanFail(outType) == outType \in {"json", "body", "template"}

\* handler.Handle returns: the delivery was rendered to standard output.
RenderOk ==
    /\ Alive
    /\ hpc = "rendering"
    /\ hpc' = "rendered"
    /\ completed' = completed + 1
    /\ UNCHANGED << config, jsonVars, mainVars, tokenVars, sigVars, brokerVars,
                    sinkVars, current, handed, renderFailed, streamVars >>

\* Variant: Handle swallows the error and returns normally.
RenderErrorSwallowed ==
    /\ Alive
    /\ hpc = "rendering"
    /\ CanFail(config.outType)
    /\ hpc' = "rendered"
    /\ renderFailed' = TRUE
    /\ UNCHANGED << config, jsonVars, mainVars, tokenVars, sigVars, brokerVars,
                    sinkVars, current, handed, completed, streamVars >>

\* handler.Handle panics (write, encode or template execution error): the
\* panic unwinds the consumer goroutine, past the cancel() of handlerFunc,
\* and ends the process with status 2.
RenderPanic ==
    /\ Alive
    /\ hpc = "rendering"
    /\ CanFail(config.outType)
    /\ hpc' = "panicked"
    /\ renderFailed' = TRUE
    /\ pc' = "exited"
    /\ exitCode' = {2}
    /\ UNCHANGED << config, jsonVars, runErr, tokenVars, sigVars, brokerVars, sinkVars,
                    current, handed, completed, streamVars >>

\* Variant: handlerFunc returns without calling cancel().
HandlerWithoutCancel ==
    /\ Alive
    /\ hpc = "rendered"
    /\ hpc' = "idle"
    /\ UNCHANGED << config, jsonVars, mainVars, tokenVars, sigVars, brokerVars,
                    sinkVars, current, handed, completed, renderFailed,
                    streamVars >>

\* handlerFunc after handler.Handle has returned: cancel().
HandlerCancel ==
    /\ Alive
    /\ hpc = "rendered"
    /\ hpc' = "idle"
    /\ Cancel("render")
    /\ UNCHANGED << config, jsonVars, mainVars, sigVars, brokerVars, sinkVars,
                    current, handed, completed, renderFailed, streamVars >>

(* --------------------- jsonHandler.Handle by itself ------------------- *)

\* The sequences over S of length at most n.
SeqsUpTo(S, n) == UNION { [1 .. k -> S] : k \in 0 .. n }

\* Body bytes explored: NUL, the letter A, and 0xFF, which no text holds.
BodyBytes == {0, 65, 255}

\* Routing key bytes explored: the quote, the two bytes of U+00E9 (0xC3
\* 0xA9) and 0xFF; a lone 0xC3, a lone 0xA9 and 0xFF are not valid UTF-8.
KeyBytes == {34, 195, 169, 255}

\* Delivery tags explored: one digit, two digits, and the largest value of
\* a signed 32-bit integer (the tag is a uint64; wider values are written
\* the same way, digit by digit).
DeliveryTags == {0, 10, 2147483647}

\* The deliveries given to jsonHandler.Handle: the fields of amqp.Delivery
\* of each JSON kind (a string, a number, a boolean and the byte slice).
Messages ==
    [RoutingKey  : SeqsUpTo(KeyBytes, MaxKey),
     DeliveryTag : DeliveryTags,
     Redelivered : BOOLEAN,
     Body        : SeqsUpTo(BodyBytes, MaxBody)]

\* encoding/json writes a []byte as a base64 string (standard alphabet,
\* padded): three bytes make four 6-bit digits; 64 stands for the pad "=".
RECURSIVE Base64(_)
Base64(b) ==
    IF Len(b) = 0 THEN << >>
    ELSE IF Len(b) = 1 THEN
        << b[1] \div 4, (b[1] % 4) * 16, 64, 64 >>
    ELSE IF Len(b) = 2 THEN
        << b[1] \div 4, (b[1] % 4) * 16 + (b[2] \div 16), (b[2] % 16) * 4, 64 >>
    ELSE << b[1] \div 4, (b[1] % 4) * 16 + (b[2] \div 16),
            (b[2] % 16) * 4 + (b[3] \div 64), b[3] % 64 >>
         \o Base64(SubSeq(b, 4, Len(b)))

\* The bytes a base64 string stands for.
RECURSIVE UnBase64(_)
UnBase64(d) ==
    IF Len(d) < 4 THEN << >>
    ELSE (IF d[3] = 64 THEN << d[1] * 4 + (d[2] \div 16) >>
          ELSE IF d[4] = 64 THEN
              << d[1] * 4 + (d[2] \div 16), (d[2] % 16) * 16 + (d[3] \div 4) >>
          ELSE << d[1] * 4 + (d[2] \div 16), (d[2] % 16) * 16 + (d[3] \div 4),
                  (d[3] % 4) * 64 + d[4] >>)
         \o UnBase64(SubSeq(d, 5, Len(d)))

\* A continuation byte of UTF-8.
Cont(x) == x \in 128 .. 191

\* The length of the valid UTF-8 sequence s starts with, 0 if it starts
\* with none (utf8.DecodeRuneInString returning RuneError, 1).
RuneLen(s) ==
    IF s[1] < 128 THEN 1
    ELSE IF s[1] \in 194 .. 223 /\ Len(s) >= 2 /\ Cont(s[2]) THEN 2
    ELSE IF /\ s[1] \in 224 .. 239 /\ Len(s) >= 3
            /\ Cont(s[2]) /\ Cont(s[3])
            /\ (s[1] = 224 => s[2] >= 160)
            /\ (s[1] = 237 => s[2] <= 159) THEN 3
    ELSE IF /\ s[1] \in 240 .. 244 /\ Len(s) >= 4
            /\ Cont(s[2]) /\ Cont(s[3]) /\ Cont(s[4])
            /\ (s[1] = 240 => s[2] >= 144)
            /\ (s[1] = 244 => s[2] <= 143) THEN 4
    ELSE 0

\* s is valid UTF-8.
RECURSIVE ValidUtf8(_)
ValidUtf8(s) ==
    \/ Len(s) = 0
    \/ RuneLen(s) > 0 /\ ValidUtf8(SubSeq(s, RuneLen(s) + 1, Len(s)))

\* A literal byte and an escape of a JSON string; the escape carries the
\* code point it stands for.
Raw(b) == [esc |-> FALSE, v |-> b]
Esc(cp) == [esc |-> TRUE, v |-> cp]

\* The bytes of s as literal bytes.
Literal(s) == [i \in 1 .. Len(s) |-> Raw(s[i])]

\* encoding/json writes a string byte by byte: the quote, the backslash,
\* control characters and <, >, & are escaped, other ASCII is copied, a
\* valid multi-byte sequence is copied, and a byte that starts no valid
\* sequence is replaced by the escape of U+FFFD.
RECURSIVE EncodeString(_)
EncodeString(s) ==
    IF Len(s) = 0 THEN << >>
    ELSE IF s[1] < 128 THEN
        << IF s[1] < 32 \/ s[1] \in {34, 92, 60, 62, 38}
             THEN Esc(s[1]) ELSE Raw(s[1]) >>
        \o EncodeString(Tail(s))
    ELSE IF RuneLen(s) = 0 THEN
        << Esc(65533) >> \o EncodeString(Tail(s))
    ELSE Literal(SubSeq(s, 1, RuneLen(s)))
         \o EncodeString(SubSeq(s, RuneLen(s) + 1, Len(s)))

\* The UTF-8 encoding of a code point of the basic plane.
Utf8(cp) ==
    IF cp < 128 THEN << cp >>
    ELSE IF cp < 2048 THEN << 192 + (cp \div 64), 128 + (cp % 64) >>
    ELSE << 224 + (cp \div 4096), 128 + ((cp \div 64) % 64),
            128 + (cp % 64) >>

\* The string a JSON string stands for: literal bytes as they are, an
\* escape as the UTF-8 encoding of its code point.
RECURSIVE DecodeString(_)
DecodeString(t) ==
    IF Len(t) = 0 THEN << >>
    ELSE (IF t[1].esc THEN Utf8(t[1].v) ELSE << t[1].v >>)
         \o DecodeString(Tail(t))

\* An unsigned integer as its decimal digits, and back.
RECURSIVE Digits(_)
Digits(n) == IF n < 10 THEN << n >> ELSE Digits(n \div 10) \o << n % 10 >>

RECURSIVE Number(_)
Number(d) ==
    IF Len(d) = 0 THEN 0
    ELSE 10 * Number(SubSeq(d, 1, Len(d) - 1)) + d[Len(d)]

\* The body, a []byte, is written in base64.
EncodeBody(b) == Base64(b)

\* dec.Encode(&msg): the document, field by field.
Encode(m) ==
    [RoutingKey  |-> EncodeString(m.RoutingKey),
     DeliveryTag |-> Digits(m.DeliveryTag),
     Redelivered |-> IF m.Redelivered THEN "true" ELSE "false",
     Body        |-> EncodeBody(m.Body)]

\* A reader decodes the document into the fields of a delivery.
Decode(d) ==
    [RoutingKey  |-> DecodeString(d.RoutingKey),
     DeliveryTag |-> Number(d.DeliveryTag),
     Redelivered |-> d.Redelivered = "true",
     Body        |-> UnBase64(d.Body)]

\* A delivery is handed to jsonHandler.Handle.
JsonInit ==
    /\ config = [version |-> FALSE, parseErr |-> FALSE, outType |-> "json",
                 exchange |-> FALSE, kind |-> "direct", routingKey |-> FALSE,
                 lazy |-> FALSE, verify |-> FALSE, urls |-> 1]
    /\ ProcessInit
    /\ jpc = "handle"
    /\ msg \in Messages
    /\ stdout = NoDocument
    /\ decoded = NoMessage

\* jsonHandler.Handle: the delivery is encoded and written to standard
\* output (none of the fields explored makes Encode fail).
JsonHandle ==
    /\ jpc = "handle"
    /\ stdout' = Encode(msg)
    /\ jpc' = "written"
    /\ UNCHANGED << config, mainVars, tokenVars, sigVars, brokerVars,
                    sinkVars, handlerVars, streamVars, msg, decoded >>

\* A reader of standard output decodes the document.
JsonRead ==
    /\ jpc = "written"
    /\ decoded' = Decode(stdout)
    /\ jpc' = "read"
    /\ UNCHANGED << config, mainVars, tokenVars, sigVars, brokerVars,
                    sinkVars, handlerVars, streamVars, msg, stdout >>

JsonNext ==
    \/ JsonHandle
    \/ JsonRead

JsonSpec == JsonInit /\ [][JsonNext]_vars

(* --------------------------- specifications --------------------------- *)

Next ==
    \/ MainParse
    \/ RunStart
    \/ SelectHandler
    \/ ReadTemplate
    \/ Register
    \/ Wait
    \/ DeferredCancel
    \/ DeferredWait
    \/ MainExit
    \/ Interrupt
    \/ Connect
    \/ ConnectFail
    \/ Retry
    \/ ConnectOk
    \/ TopologyStep
    \/ TopologyFail
    \/ ConnectionLost
    \/ BeginClose
    \/ FinishClose
    \/ BrokerFinish
    \/ Discard
    \/ Dispatch
    \/ RenderOk
    \/ RenderPanic
    \/ HandlerCancel

Spec == Init /\ [][Next]_vars


\* The steps the program takes by itself once they are possible: the main
\* goroutine runs, a started render ends, a connection attempt ends (at the
\* latest on its timeout), the retry timer fires and the broker's loop
\* observes the token.  Reading the template waits for the end of standard
\* input, deliveries, interrupts, failures and connection losses come from
\* outside: none of them is required to happen.
Fairness ==
    /\ WF_vars(MainParse)
    /\ WF_vars(RunStart)
    /\ WF_vars(SelectHandler)
    /\ WF_vars(Register)
    /\ WF_vars(Wait)
    /\ WF_vars(DeferredCancel)
    /\ WF_vars(DeferredWait)
    /\ WF_vars(MainExit)
    /\ WF_vars(Connect)
    /\ WF_vars(Retry)
    /\ WF_vars(ConnectFail \/ ConnectOk)
    /\ WF_vars(BeginClose)
    /\ WF_vars(FinishClose)
    /\ WF_vars(BrokerFinish)
    /\ WF_vars(RenderOk \/ RenderPanic)
    /\ WF_vars(HandlerCancel)

FairSpec == Spec /\ Fairness


(* ------------------------------ properties ---------------------------- *)

\* The dispatcher has called cancel() after a render.
DispatcherCancelled == "render" \in causes /\ BrokerContext

\* Between the return of handler.Handle and cancel() the consumer is still
\* inside handlerFunc and no other delivery has been handed over.
C1_Safe ==
    completed > 0 =>
        \/ hpc = "rendered" /\ handed = completed
        \/ DispatcherCancelled

\* C1: whenever the selected handler returns from rendering a delivery, the
\* dispatcher trips the cancellation token, and it does so before any other
\* delivery is handed to the handler, whatever the variant and the delivery.
C1_RenderTripsToken ==
    /\ []C1_Safe
    /\ ((completed > 0) ~> DispatcherCancelled)

\* A binary delivery rendered by the template variant, the token tripped by
\* the dispatcher.
C1_Witness ==
    /\ completed = 1
    /\ hpc = "idle"
    /\ DispatcherCancelled
    /\ config.outType = "template"
    /\ current.body = "binary"

\* C2: over the whole process lifetime at most one delivery is handed to the
\* handler and rendered, however many deliveries the broker has to offer and
\* across reconnects.
C2_AtMostOneRender == handed <= 1 /\ completed <= 1

\* One delivery was rendered, the connection is still up with its topology
\* in place and the broker has more to offer.
C2_Witness ==
    /\ completed = 1
    /\ hpc = "idle"
    /\ conn = "Connected"
    /\ topo = "done"
    /\ offered < MaxDeliveries
    /\ Alive

\* The run() has reached its deferred cancel().
Returning == pc \in {"deferred_wait", "run_returned", "exited"}

\* The token is tripped exactly when a source has fired, and each source
\* fires only on its event.
C3_Sources ==
    /\ BrokerContext <=> (signals > 0 \/ gctxDone)
    /\ gctxDone <=> (causes \cap {"render", "return"} # {})
    /\ ("signal" \in causes) <=> (signals > 0)
    /\ ("render" \in causes) => completed > 0
    /\ ("return" \in causes) => Returning

\* C3: the token the Transport Connection Manager sees is the OR of the OS
\* interrupt and the cancel() of run() (called by the dispatcher after a
\* render, and when run() returns); once tripped it stays tripped.
C3_TokenIsOrOfSources ==
    /\ []C3_Sources
    /\ [][BrokerContext => BrokerContext']_vars

\* Both sources have fired, the interrupt more than once.
C3_Witness ==
    /\ signals >= 2
    /\ "render" \in causes
    /\ BrokerContext

\* While no attempt has succeeded: the loop ends only on a tripped token,
\* until then it is in an attempt or about to make one and some step of
\* the loop is possible, and run() passes its wait only on a tripped token
\* and returns no error of the connection.
C4_Body ==
    /\ brokerDone => Tripped
    /\ (Alive /\ brokerStarted /\ ~brokerDone /\ ~Tripped) =>
          /\ conn \in {"Disconnected", "Connecting", "Waiting"}
          /\ ENABLED (Connect \/ Retry \/ ConnectFail)
    /\ (pc = "deferred_cancel" /\ runErr = "none") => Tripped
    /\ runErr \in {"none", "read_error", "parse_error"}
    /\ (pc = "exited" /\ brokerStarted /\ runErr = "none") => exitCode = {0}

\* C4: if every connection attempt fails (errors and timeouts alike), the
\* manager keeps attempting while the token is not tripped, never fails
\* fatally by itself, and the run ends only after cancellation, without
\* error.
C4_RetryUntilCancelled == ~everConnected => C4_Body

\* With two endpoints, both have failed, the second one is being retried and
\* the first one is due again.
C4_Witness ==
    /\ ~everConnected
    /\ config.urls = 2
    /\ conn = "Waiting"
    /\ url = 0
    /\ ~Tripped


\* A connection, or an attempt at one, is open.
ConnectionOpen == conn \in {"Connecting", "Connected", "Closing"}

\* C5: if an OS interrupt arrives before any delivery was handed over, from
\* any connection state, the process ends with exit code 0, has rendered no
\* delivery, and has no connection open when it ends.
C5_InterruptExitsZero ==
    (pc = "exited" /\ earlySignal) =>
        /\ exitCode = {0}
        /\ handed = 0
        /\ ~ConnectionOpen

\* A delivery that failed verification was dropped and a later one rendered.
C6_Witness ==
    /\ config.verify
    /\ discarded >= 1
    /\ completed = 1
    /\ current.sigOk

\* With a certificate only verified deliveries reach the handler; without
\* one nothing is dropped.
C6_Inv ==
    /\ (config.verify /\ handed > 0) => current.sigOk
    /\ ~config.verify => discarded = 0
    /\ discarded > 0 => config.verify

\* A step that drops a delivery renders nothing, leaves the token, the
\* process and the connection as they are, and leaves the consumer waiting.
C6_DropStep ==
    discarded' > discarded =>
        /\ UNCHANGED << pc, exitCode, tokenVars, conn, topo, hpc, handed,
                        completed >>
        /\ conn' = "Connected" /\ topo' = "done" /\ hpc' = "idle"
        /\ ~BrokerContext'
        /\ Alive'

\* C6: with a verification certificate a delivery is handed to the handler
\* only after it passed verification; one that fails is dropped, is not
\* rendered, trips nothing and ends nothing, and the consumer keeps waiting;
\* without a certificate every delivery passes.
C6_VerifyBeforeDispatch ==
    /\ []C6_Inv
    /\ [][C6_DropStep]_vars

\* C7: a template that fails to compile is detected before any connection
\* attempt has been started, and the process then ends with exit code 2.
C7_CompileFailureBeforeConnect ==
    /\ [][(runErr = "none" /\ runErr' = "parse_error") => ~everAttempted]_vars
    /\ []((pc = "exited" /\ runErr = "parse_error") => exitCode = {2})

\* C8: the exit code follows from how the run ends, in this order: 0 with
\* the version flag (engine never started), else 1 on a parse failure
\* (engine never started, no connection attempted), else 2 when run()
\* returns an error, else 0, which happens only after a render or an
\* interrupt; a render panic ends the process with 2.
C8_ExitCodes ==
    /\ Alive => exitCode = {}
    /\ pc = "exited" =>
          /\ exitCode \in {{0}, {1}, {2}}
          /\ config.version => exitCode = {0} /\ ~brokerStarted
          /\ (~config.version /\ config.parseErr) =>
                exitCode = {1} /\ ~brokerStarted /\ ~everAttempted
          /\ (~config.version /\ ~config.parseErr) =>
                /\ brokerStarted
                /\ runErr # "none" => exitCode = {2}
                /\ (runErr = "none" /\ ~renderFailed) =>
                      /\ exitCode = {0}
                      /\ (completed = 1 \/ signals > 0)
                /\ renderFailed => exitCode = {2}

\* run() returned a template error and the process ended with 2.
C8_Witness ==
    /\ pc = "exited"
    /\ runErr = "parse_error"
    /\ exitCode = {2}

\* C9: a render failure ends the process with exit code 2; the dispatcher's
\* cancel is not performed for it, it is the only delivery handed over and
\* nothing is rendered.
C9_RenderFailureIsFatal ==
    renderFailed =>
        /\ pc = "exited"
        /\ exitCode = {2}
        /\ "render" \notin causes
        /\ handed = 1
        /\ completed = 0

\* A JSON render failed.
C9_Witness ==
    /\ renderFailed
    /\ config.outType = "json"
    /\ exitCode = {2}


\* run() has returned (and main() may have ended the process after it).
Terminated ==
    \/ pc = "run_returned"
    \/ pc = "exited" /\ brokerStarted /\ ~renderFailed

\* The lifecycle of a run once the engine is started: Running until the
\* token trips, Cancelling until run() returns, then Terminated; Aborted when
\* a render panic has ended the process.
Lifecycle ==
    IF ~brokerStarted THEN "NotStarted"
    ELSE IF renderFailed THEN "Aborted"
    ELSE IF Terminated THEN "Terminated"
    ELSE IF ctxDone THEN "Cancelling"
    ELSE "Running"

\* A connection attempt starts in this step.
AttemptStarts == conn # "Connecting" /\ conn' = "Connecting"

\* run() waits for the end of standard input.
ReadingTemplate == pc = "select_handler" /\ config.outType = "template"

\* Terminated only after teardown: the loop has finished, nothing is open.
TornDownWhenTerminated ==
    Lifecycle = "Terminated" => brokerDone /\ ~ConnectionOpen

C11_AtMostOneConnected ==
    /\ links <= 1
    /\ conn = "Connected" => links = 1
    /\ conn \in {"Disconnected", "Connecting", "Waiting", "Closed"} => links = 0

\* A connection is up on the second endpoint after an earlier connection,
\* on which a delivery was consumed, has gone.
C11_Witness ==
    /\ conn = "Connected"
    /\ links = 1
    /\ topo = "none"
    /\ offered > 0
    /\ config.urls = 2
    /\ url = 1

\* The declarations a usable connection needs, in their order.
ExpectedTopology ==
    IF config.exchange THEN << "exchange", "queue", "bind" >>
    ELSE << "queue" >>

\* Sequence a is a prefix of sequence b.
IsPrefix(a, b) == Len(a) <= Len(b) /\ a = SubSeq(b, 1, Len(a))

\* A delivery is taken from the queue in this step.
Consumes == offered' > offered

\* C12: on every connection the declarations are made in the order exchange
\* (when one is configured), queue, binding, and no delivery is consumed
\* before all of them have succeeded on that connection.
C12_TopologyBeforeConsume ==
    /\ [](IsPrefix(topoLog, ExpectedTopology))
    /\ [][Consumes => (conn = "Connected" /\ topo = "done"
                       /\ topoLog = ExpectedTopology)]_vars

\* A delivery is being rendered on a connection where the exchange, the
\* queue and the binding were declared.
C12_Witness ==
    /\ hpc = "rendering"
    /\ config.exchange
    /\ conn = "Connected"
    /\ topoLog = << "exchange", "queue", "bind" >>

\* The window of the latest attempts holds consecutive endpoints of the
\* list, cyclically: no endpoint is tried twice before every other one was.
RoundRobin(w) ==
    /\ \A i \in 1 .. Len(w) - 1 : w[i + 1] = (w[i] + 1) % config.urls
    /\ \A i, j \in 1 .. Len(w) : i # j => w[i] # w[j]
    /\ Len(w) = config.urls => { w[i] : i \in 1 .. Len(w) } = 0 .. config.urls - 1

\* An attempt or a connection ends and the loop starts waiting.
StartsWaiting == conn # "Waiting" /\ conn' = "Waiting"

\* C14: the endpoints are tried in round-robin order of the list, the
\* endpoint after a failure of endpoint i being (i + 1) mod n, and an
\* attempt starts only as the first one or when the wait after the
\* previous one has ended.
C14_RoundRobin ==
    /\ [](RoundRobin(recent) /\ url \in 0 .. config.urls - 1)
    /\ [][StartsWaiting => url' = (url + 1) % config.urls]_vars
    /\ [][AttemptStarts =>
            /\ ~Tripped
            /\ \/ conn = "Disconnected" /\ ~everAttempted /\ url = 0
               \/ conn = "Waiting"
            /\ recent' = Attempted(recent, url)
            /\ url' = url]_vars

\* Of two endpoints the first is tried again after the second has failed,
\* no connection having succeeded.
C14_Witness ==
    /\ config.urls = 2
    /\ ~everConnected
    /\ conn = "Connecting"
    /\ recent = << 1, 0 >>

\* The program goes on as before: it has not exited, run() has no error
\* and the broker's loop has not ended.
GoesOn ==
    /\ Alive'
    /\ exitCode' = exitCode
    /\ runErr' = runErr
    /\ pc' = pc
    /\ brokerDone' = brokerDone

\* C15: a failed topology step is never fatal: the program goes on, the
\* loop waits and reconnects, the next connection starts again from the
\* first step, and a usable connection has had each declaration exactly
\* once.
C15_TopologyRetry ==
    /\ [][(conn = "Connected" /\ topo # "done" /\ conn' # conn /\ ~Tripped)
            => (conn' = "Waiting" /\ topoLog' = << >> /\ topo' = "none"
                /\ GoesOn)]_vars
    /\ [][(conn # "Connected" /\ conn' = "Connected")
            => (topo' = "none" /\ topoLog' = << >>)]_vars
    /\ [](topo = "done" => conn \in {"Connected", "Closing"}
                           /\ topoLog = ExpectedTopology)
    /\ [](brokerDone => Tripped)
    /\ [](conn = "Waiting" /\ Alive /\ ~brokerDone /\ ~Tripped
          /\ hpc = "idle" => ENABLED Retry)

\* After a failed declaration a later connection has its exchange, queue
\* and binding declared once each.
C15_Witness ==
    /\ topoFailed
    /\ conn = "Connected"
    /\ topo = "done"
    /\ config.exchange
    /\ topoLog = << "exchange", "queue", "bind" >>

\* A delivery is inside handlerFunc: being rendered, or rendered with the
\* cancel() still to come.
InHandler == hpc \in {"rendering", "rendered"}

\* C16: cancellation never aborts a render in progress and never admits a
\* new one: while a delivery is inside the handler the connection is not
\* closed and neither the broker nor run() has finished, a render ends only
\* by completing or by its own failure, and no delivery is handed to the
\* handler once the token is tripped.
C16_CancelRespectsRender ==
    /\ [](InHandler => Alive /\ pc = "wait" /\ ~brokerDone /\ conn # "Closed")
    /\ [][(hpc = "rendering" /\ hpc' # hpc)
            => hpc' \in {"rendered", "panicked"}]_vars
    /\ [][handed' > handed => (~ctxDone /\ hpc' = "rendering")]_vars

\* An interrupt has tripped the token while a delivery is being rendered;
\* the connection is closing and waits for the render.
C16_Witness ==
    /\ hpc = "rendering"
    /\ ctxDone
    /\ signals > 0
    /\ conn = "Closing"

\* The deliveries whose handling has ended, by completion or by failure.
Ended == completed + (IF renderFailed THEN 1 ELSE 0)

BeforeRegister ==
    \/ pc \in {"main_parse", "run_start", "select_handler", "register"}
    \/ runErr \in {"read_error", "parse_error"}
    \/ config.version \/ config.parseErr

\* C18: the handler is registered on exactly one consumer: on the exchange
\* binding when an exchange name is configured, else on the sink.  The
\* routing key is applied exactly when an exchange name is configured and
\* the key is not empty, and every exchange kind, fanout with a routing key
\* included, is accepted without error.
C18_OneConsumer ==
    /\ BeforeRegister <=> registered = {}
    /\ registered # {} =>
          /\ Cardinality(registered) = 1
          /\ registered = (IF config.exchange THEN {"exchange"}
                           ELSE {"queue"})
          /\ exc.keyed <=> (config.exchange /\ config.routingKey)
          /\ config.exchange => exc.kind = config.kind
          /\ ~config.exchange => exc = NoExchange
    /\ runErr # "unknown_exchange_type"

\* A fanout exchange with a routing key: the handler is registered on the
\* exchange binding, the key applied, and run() waits without error.
C18_Witness ==
    /\ pc = "wait"
    /\ config.exchange
    /\ config.kind = "fanout"
    /\ config.routingKey
    /\ registered = {"exchange"}
    /\ exc = [kind |-> "fanout", keyed |-> TRUE]
    /\ runErr = "none"

\* run() is returning: its deferred calls are running.
InDeferred == pc \in {"deferred_cancel", "deferred_wait"}

\* C19: every return path of run() ends with the engine torn down: the
\* deferred cancel() runs before the deferred wait, so the wait ends, and
\* when run() has returned the broker has finished and no connection is
\* open; on the normal path run() leaves its wait only after the broker
\* has finished.
C19_TornDownOnReturn ==
    /\ [][(pc = "deferred_cancel" /\ pc' # pc)
            => (pc' = "deferred_wait" /\ gctxDone' /\ ctxDone')]_vars
    /\ [](pc = "deferred_wait" => gctxDone /\ ctxDone)
    /\ [][(pc = "wait" /\ pc' = "deferred_cancel")
            => (brokerDone /\ runErr = "none")]_vars
    /\ []((pc \in {"run_returned", "exited"} /\ ~renderFailed
            /\ brokerStarted) => (brokerDone /\ ~ConnectionOpen))
    /\ (InDeferred ~> pc \in {"run_returned", "exited"})

\* run() has returned a template error after the broker had made a
\* connection; only the deferred cancel() has tripped the token, and the
\* broker has finished.
C19_Witness ==
    /\ pc = "run_returned"
    /\ runErr = "parse_error"
    /\ everConnected
    /\ causes = {"return"}
    /\ brokerDone
    /\ conn = "Closed"

\* C13: JSON rendering is a faithful round trip for every delivery:
\* decoding the document jsonHandler.Handle has written yields the
\* original metadata fields and exactly the original body bytes.
C13_JsonRoundTrip == jpc = "read" => decoded = msg

\* What the round trip does preserve: the body, byte for byte, whatever
\* its bytes; the delivery tag and the redelivered flag; and a routing key
\* that is valid UTF-8.  A routing key that is not comes back with U+FFFD
\* in place of each byte that starts no valid sequence.
C13_BodyAndValidTextRoundTrip ==
    jpc = "read" =>
        /\ decoded.Body = msg.Body
        /\ decoded.DeliveryTag = msg.DeliveryTag
        /\ decoded.Redelivered = msg.Redelivered
        /\ ValidUtf8(msg.RoutingKey) <=> decoded.RoutingKey = msg.RoutingKey
        /\ ValidUtf8(decoded.RoutingKey)

\* A body of three bytes that are not text has come back unchanged, with a
\* two-byte character in the routing key.
C13_Witness ==
    /\ jpc = "read"
    /\ msg.Body = << 255, 0, 255 >>
    /\ decoded.Body = << 255, 0, 255 >>
    /\ msg.RoutingKey = << 195, 169 >>
    /\ decoded = msg

\* The routing key is the byte 0xFF: the document holds the escape of
\* U+FFFD and the reader gets the three bytes 0xEF 0xBF 0xBD.
C13_Lossy ==
    /\ jpc = "read"
    /\ msg.RoutingKey = << 255 >>
    /\ stdout.RoutingKey = << Esc(65533) >>
    /\ decoded.RoutingKey = << 239, 191, 189 >>

====
